---- MODULE Spec2Model ----
(***************************************************************************)
(* Model of the SimpleETL pipeline of simple_etl.py: extract_data,         *)
(* transform_data (with create_risk_features), load_data (with             *)
(* create_portfolio_summary), generate_report, driven by run_pipeline,     *)
(* against the SQLite store that simple_setup.py initialises.              *)
(*                                                                         *)
(* Numbers with decimals are kept in hundredths (interest_rate 10.01 is    *)
(* 1001, risk_score 95.00 is 9500).                                        *)
(***************************************************************************)
EXTENDS Integers, Sequences, FiniteSets, TLC

\* Number of pipeline runs explored.
MaxRuns == 2

---------------------------------------------------------------------------
\* Values

\* pandas NaN / SQL NULL in a numeric column (every real number here is >= 0).
NaN == -1
\* pandas NaN / SQL NULL in a text or categorical column.
None == "None"
\* pandas NaT.
NaT == "NaT"

\* A dataframe or a store table: its columns and its rows in order.
Tbl(cols, rows) == [cols |-> cols, rows |-> rows]

\* pd.DataFrame(): no columns, no rows.
EmptyFrame == Tbl({}, <<>>)

\* An empty dict of dataframes.
NoData == [k \in {} |-> EmptyFrame]

\* data with df stored under key (dict assignment).
Put(data, key, df) ==
  [k \in DOMAIN data \cup {key} |-> IF k = key THEN df ELSE data[k]]

\* DataFrame.empty: some axis has length 0.
IsEmpty(df) == df.cols = {} \/ Len(df.rows) = 0

\* A source file: readable with a table, or one read_csv raises on
\* (missing, zero bytes, corrupt).
File(df) == [readable |-> TRUE, df |-> df]
Unreadable == [readable |-> FALSE, df |-> EmptyFrame]

\* A table of the store, or a name the store has no table for.
Stored(df) == [exists |-> TRUE, df |-> df]
Absent == [exists |-> FALSE, df |-> EmptyFrame]

---------------------------------------------------------------------------
\* Schema and configuration

data_sources == <<"customers", "loans", "transactions">>

TableOrder == <<"customers", "loans", "transactions", "risk_features">>

CustCols == {"customer_id", "credit_score"}
LoanCols == {"loan_id", "customer_id", "loan_amount", "interest_rate",
             "tenure_months", "emi_amount", "current_status"}
TxnCols  == {"transaction_id", "transaction_date"}
RiskCols == {"loan_id", "risk_score", "risk_grade"}

\* The store right after simple_setup.py: the five tables exist and are empty.
tables_sql ==
  [t \in {"customers", "loans", "transactions", "risk_features"} |->
     CASE t = "customers"     -> Stored(Tbl(CustCols, <<>>))
       [] t = "loans"         -> Stored(Tbl(LoanCols, <<>>))
       [] t = "transactions"  -> Stored(Tbl(TxnCols, <<>>))
       [] t = "risk_features" -> Stored(Tbl(RiskCols, <<>>))]

---------------------------------------------------------------------------
\* Bounded inputs: the contents the three source files can have.

Cust(id, score) == [customer_id |-> id, credit_score |-> score]

Loan(id, cust, amount, rate, tenure, emi, status) ==
  [loan_id |-> id, customer_id |-> cust, loan_amount |-> amount,
   interest_rate |-> rate, tenure_months |-> tenure, emi_amount |-> emi,
   current_status |-> status]

Txn(id, date) == [transaction_id |-> id, transaction_date |-> date]

\* Drops the columns not in cols from every row.
Project(rows, cols) ==
  [i \in 1..Len(rows) |-> [c \in cols |-> rows[i][c]]]

Without(df, col) == Tbl(df.cols \ {col}, Project(df.rows, df.cols \ {col}))

CustomersA == Tbl(CustCols, <<Cust(1, 760), Cust(2, 649)>>)
CustomersB == Tbl(CustCols, <<Cust(1, 700)>>)

LoansA == Tbl(LoanCols, <<Loan(1, 1, 100000, 1000, 24, 5000, "ACTIVE"),
                          Loan(2, 9, 50000, 1601, 12, 5000, "CLOSED")>>)
LoansB == Tbl(LoanCols, <<Loan(3, 2, 200000, 1201, 36, 7000, "ACTIVE")>>)

TxnsA   == Tbl(TxnCols, <<Txn(1, "2023-01-15"), Txn(2, None)>>)
TxnsBad == Tbl(TxnCols, <<Txn(1, "2023-02-03"), Txn(2, "not-a-date")>>)

CustomersFiles == {Unreadable, File(Tbl(CustCols, <<>>)), File(CustomersA),
                   File(CustomersB)}
LoansFiles == {Unreadable, File(LoansA), File(LoansB),
               File(Without(LoansA, "emi_amount")),
               File(Without(LoansB, "current_status"))}
TransactionsFiles == {Unreadable, File(TxnsA), File(TxnsBad)}

\* The files simple_setup.py leaves in data_sources.
sample_data ==
  [k \in {"customers", "loans", "transactions"} |->
     CASE k = "customers"    -> File(CustomersA)
       [] k = "loans"        -> File(LoansA)
       [] k = "transactions" -> File(TxnsA)]

FileChoices(key) ==
  CASE key = "customers"    -> CustomersFiles
    [] key = "loans"        -> LoansFiles
    [] key = "transactions" -> TransactionsFiles

---------------------------------------------------------------------------
\* extract_data

\* pd.read_csv inside the try of extract_data: the table, or an exception.
read_csv(file) ==
  IF file.readable THEN [raised |-> FALSE, df |-> file.df]
                   ELSE [raised |-> TRUE, df |-> EmptyFrame]

\* The loop without its try/except: the first failed read ends it.
RECURSIVE extract_from_unguarded(_, _, _)
extract_from_unguarded(fs, i, data) ==
  IF i > Len(data_sources) THEN [raised |-> FALSE, data |-> data]
  ELSE LET key == data_sources[i]
           r   == read_csv(fs[key])
       IN IF r.raised THEN [raised |-> TRUE, data |-> data]
          ELSE extract_from_unguarded(fs, i + 1, Put(data, key, r.df))

\* The loop of extract_data over config['data_sources'], keys i..3 still to
\* read: a failed read is caught and leaves pd.DataFrame() under the key.
RECURSIVE extract_from(_, _, _)
extract_from(fs, i, data) ==
  IF i > Len(data_sources) THEN [raised |-> FALSE, data |-> data]
  ELSE LET key == data_sources[i]
           r   == read_csv(fs[key])
           df  == IF r.raised THEN EmptyFrame ELSE r.df
       IN extract_from(fs, i + 1, Put(data, key, df))

extract_data(fs) == extract_from(fs, 1, NoData)

---------------------------------------------------------------------------
\* transform_data

\* df[col] = vals: sets column col of row i to vals[i].
WithColumn(df, col, vals) ==
  Tbl(df.cols \cup {col},
      [i \in 1..Len(df.rows) |->
         [c \in df.cols \cup {col} |->
            IF c = col THEN vals[i] ELSE df.rows[i][c]]])

\* The series computed row by row from the rows of df.
Rows(df) == 1..Len(df.rows)

Raised == [raised |-> TRUE, df |-> EmptyFrame]
Ok(df) == [raised |-> FALSE, df |-> df]

\* Segments whose lower bounds are exclusive.
customer_segment_exclusive(score) ==
  IF score = NaN THEN "Standard"
  ELSE IF score > 750 THEN "Premium"
  ELSE IF score > 700 THEN "Gold"
  ELSE IF score > 650 THEN "Silver"
  ELSE "Standard"

\* np.select(conditions, choices, default='Standard') on credit_score.
customer_segment(score) ==
  IF score = NaN THEN "Standard"
  ELSE IF score >= 750 THEN "Premium"
  ELSE IF score >= 700 /\ score < 750 THEN "Gold"
  ELSE IF score >= 650 /\ score < 700 THEN "Silver"
  ELSE IF score < 650 THEN "Standard"
  ELSE "Standard"

\* Step 1 of transform_data on a non-empty customers table.
segment_customers(df) ==
  IF "credit_score" \notin df.cols THEN Raised
  ELSE Ok(WithColumn(df, "customer_segment",
         [i \in Rows(df) |-> customer_segment(df.rows[i].credit_score)]))

\* pd.cut with right=False: intervals closed on the left.
risk_band_left_closed(rate) ==
  IF rate = NaN \/ rate < 0 \/ rate >= 10000 THEN None
  ELSE IF rate < 1000 THEN "A"
  ELSE IF rate < 1200 THEN "B"
  ELSE IF rate < 1400 THEN "C"
  ELSE IF rate < 1600 THEN "D"
  ELSE "E"

\* pd.cut(interest_rate, bins=[0, 10, 12, 14, 16, 100], labels A..E),
\* intervals closed on the right; rate in hundredths.
risk_band(rate) ==
  IF rate = NaN \/ rate <= 0 \/ rate > 10000 THEN None
  ELSE IF rate <= 1000 THEN "A"
  ELSE IF rate <= 1200 THEN "B"
  ELSE IF rate <= 1400 THEN "C"
  ELSE IF rate <= 1600 THEN "D"
  ELSE "E"

\* A loans step that derives nothing when a column it reads is absent.
classify_loans_lenient(df) ==
  IF ~({"interest_rate", "emi_amount", "tenure_months", "loan_amount"}
         \subseteq df.cols)
  THEN Ok(df)
  ELSE LET a == WithColumn(df, "risk_band",
                  [i \in Rows(df) |-> risk_band(df.rows[i].interest_rate)])
           b == WithColumn(a, "total_payable",
                  [i \in Rows(a) |->
                     a.rows[i].emi_amount * a.rows[i].tenure_months])
           c == WithColumn(b, "total_interest",
                  [i \in Rows(b) |->
                     b.rows[i].total_payable - b.rows[i].loan_amount])
       IN Ok(c)

\* Step 2 of transform_data on a non-empty loans table: indexing a column
\* the table does not have raises KeyError.
classify_loans(df) ==
  IF ~({"interest_rate", "emi_amount", "tenure_months", "loan_amount"}
         \subseteq df.cols)
  THEN Raised
  ELSE LET a == WithColumn(df, "risk_band",
                  [i \in Rows(df) |-> risk_band(df.rows[i].interest_rate)])
           b == WithColumn(a, "total_payable",
                  [i \in Rows(a) |->
                     a.rows[i].emi_amount * a.rows[i].tenure_months])
           c == WithColumn(b, "total_interest",
                  [i \in Rows(b) |->
                     b.rows[i].total_payable - b.rows[i].loan_amount])
       IN Ok(c)

\* The date texts of the inputs that pd.to_datetime can parse.
Parsable(text) == text \in {"2023-01-15", "2023-02-03"}

\* pd.to_datetime on one cell: a missing cell gives NaT.
to_datetime(text) == IF text = None THEN NaT ELSE text

\* Series.dt.strftime('%Y-%m') on one cell.
strftime_month(ts) ==
  CASE ts = NaT          -> None
    [] ts = "2023-01-15" -> "2023-01"
    [] ts = "2023-02-03" -> "2023-02"

\* Step 3 of transform_data on a non-empty transactions table:
\* pd.to_datetime (errors='raise') raises when any cell cannot be parsed.
normalize_transactions(df) ==
  IF "transaction_date" \notin df.cols THEN Ok(df)
  ELSE IF \E i \in 1..Len(df.rows) :
            /\ df.rows[i].transaction_date # None
            /\ ~Parsable(df.rows[i].transaction_date)
       THEN Raised
  ELSE LET a == WithColumn(df, "transaction_date",
                  [i \in Rows(df) |-> to_datetime(df.rows[i].transaction_date)])
           b == WithColumn(a, "transaction_month",
                  [i \in Rows(a) |-> strftime_month(a.rows[i].transaction_date)])
       IN Ok(b)

\* The merge with how='inner': a loan matching no customer is dropped.
RECURSIVE merge_inner(_, _, _)
merge_inner(lrows, crows, i) ==
  IF i > Len(lrows) THEN <<>>
  ELSE LET l == lrows[i]
           matches == SelectSeq(crows,
                        LAMBDA c : c.customer_id = l.customer_id)
           out == [j \in 1..Len(matches) |->
                     [loan_id |-> l.loan_id,
                      credit_score |-> matches[j].credit_score]]
       IN out \o merge_inner(lrows, crows, i + 1)

\* pd.merge(loans, customers, on='customer_id', how='left'), reduced to the
\* columns create_risk_features reads: one row per (loan, matching customer)
\* in loan order, and one row with a missing credit_score for a loan that
\* matches no customer.
RECURSIVE merge_left(_, _, _)
merge_left(lrows, crows, i) ==
  IF i > Len(lrows) THEN <<>>
  ELSE LET l == lrows[i]
           matches == SelectSeq(crows,
                        LAMBDA c : c.customer_id = l.customer_id)
           out == IF Len(matches) = 0
                  THEN <<[loan_id |-> l.loan_id, credit_score |-> NaN]>>
                  ELSE [j \in 1..Len(matches) |->
                          [loan_id |-> l.loan_id,
                           credit_score |->
                             IF "credit_score" \in DOMAIN matches[j]
                             THEN matches[j].credit_score ELSE NaN]]
       IN out \o merge_left(lrows, crows, i + 1)

\* The score without np.clip.
risk_score_unclipped(credit) ==
  IF credit = NaN THEN NaN ELSE credit * 10 + 2000

\* np.clip(credit_score * 0.1 + 20, 0, 100).round(2), in hundredths.
risk_score(credit) ==
  IF credit = NaN THEN NaN
  ELSE LET s == credit * 10 + 2000
       IN IF s < 0 THEN 0 ELSE IF s > 10000 THEN 10000 ELSE s

\* pd.cut(risk_score, bins=[0, 60, 70, 80, 90, 100], labels E..A).
risk_grade(score) ==
  IF score = NaN \/ score <= 0 \/ score > 10000 THEN None
  ELSE IF score <= 6000 THEN "E"
  ELSE IF score <= 7000 THEN "D"
  ELSE IF score <= 8000 THEN "C"
  ELSE IF score <= 9000 THEN "B"
  ELSE "A"

\* Values np.random.uniform(50, 90) can draw, in hundredths.
RandomDraws == {5000, 7250, 8999}

\* create_risk_features; rnd is what the random fallback draws for every row
\* when the merged table has no credit_score column.
create_risk_features(loans, customers, rnd) ==
  IF ~({"customer_id", "loan_id"} \subseteq loans.cols)
     \/ "customer_id" \notin customers.cols
  THEN Raised
  ELSE LET merged == merge_left(loans.rows, customers.rows, 1)
           score(i) == IF "credit_score" \in customers.cols
                       THEN risk_score(merged[i].credit_score)
                       ELSE rnd
       IN Ok(Tbl(RiskCols,
                 [i \in 1..Len(merged) |->
                    [loan_id    |-> merged[i].loan_id,
                     risk_score |-> score(i),
                     risk_grade |-> risk_grade(score(i))]]))

---------------------------------------------------------------------------
VARIABLES
  files,             \* data_sources on disk: key -> table or Unreadable
  store,             \* committed tables of the SQLite database
  portfolio_summary, \* committed rows of portfolio_summary, in id order
  pc,                \* position of run_pipeline
  raw_data,          \* result of extract_data
  transformed_data,  \* the dict built by transform_data
  load_i,            \* position of load_data's loop in data.items()
  success,           \* run_pipeline's return value: "none", "True", "False"
  runs,              \* pipeline runs started
  last_load,         \* input and outcome of the latest load_data call
  h,                 \* observations of the current run (history)
  conn,              \* per program, its connection to the store
  calc,              \* a derivation applied on its own: input and result
  tool,              \* the health check or execute_query call under way
  setup              \* simple_setup.py: its position and data_sources

\* The variables of the pipeline run.
etl_vars == <<files, store, portfolio_summary, pc, raw_data,
              transformed_data, load_i, success, runs, last_load, h>>

\* The variables the pipeline run never touches.
aux == <<calc, tool, setup>>

vars == <<etl_vars, conn, aux>>

Programs == {"etl", "health", "query"}

\* A path of data_sources: a file with its content, or nothing there.
OnDisk(file) == [exists |-> TRUE, content |-> file]
NoFile == [exists |-> FALSE, content |-> Unreadable]

\* simple_setup.py has not been started.
SetupIdle ==
  [pc |-> "none", have_own_data |-> FALSE, i |-> 1,
   pre |-> [k \in {"customers", "loans", "transactions"} |-> NoFile],
   dir |-> [k \in {"customers", "loans", "transactions"} |-> NoFile]]

\* No tool has been called.
ToolIdle == [prog |-> "none", pc |-> "none", db |-> [tables |-> <<>>,
             dated |-> FALSE], i |-> 1, needs |-> {}]

\* No derivation applied yet.
CalcIdle == [op |-> "none", arg |-> <<>>, out |-> Raised]

\* No load_data call has completed, or the latest one raised.
NoLoad == [valid |-> FALSE, data |-> NoData, store |-> tables_sql]

\* Observations reset at the start of every run.
FreshHistory(st, ps, ll) ==
  [pre_store      |-> st,      \* store when the run started
   pre_summary    |-> ps,      \* portfolio_summary when the run started
   prev_load      |-> ll,      \* last_load when the run started
   summarised     |-> 0,       \* earlier runs that appended a summary row
   failed_stage   |-> "none",  \* stage whose exception reached run_pipeline
   failed_at      |-> "none",  \* position at which that exception was raised
   crf_calls      |-> <<>>,    \* arguments of create_risk_features calls
   written        |-> {},      \* tables to_sql replaced in this run
   writes_ok      |-> FALSE,   \* load_data's loop finished
   summary_failed |-> FALSE,   \* create_portfolio_summary caught an error
   load_raised    |-> FALSE]   \* load_data raised

Init ==
  /\ files = sample_data
  /\ store = tables_sql
  /\ portfolio_summary = <<>>
  /\ pc = "idle"
  /\ raw_data = NoData
  /\ transformed_data = NoData
  /\ load_i = 1
  /\ success = "none"
  /\ runs = 0
  /\ last_load = NoLoad
  /\ h = FreshHistory(tables_sql, <<>>, NoLoad)
  /\ conn = [p \in Programs |-> "closed"]
  /\ calc = CalcIdle
  /\ tool = ToolIdle
  /\ setup = SetupIdle

---------------------------------------------------------------------------
\* Pipeline steps

\* The except clause of run_pipeline: log, return False.
Fail(stage) ==
  /\ pc' = "done"
  /\ success' = "False"
  /\ h' = [h EXCEPT !.failed_stage = stage, !.failed_at = pc]

\* The source files as somebody left them on disk before a run: any file
\* may have been replaced, removed or restored since the previous run.
SourceFiles ==
  {fs \in [{"customers", "loans", "transactions"} ->
             CustomersFiles \cup LoansFiles \cup TransactionsFiles] :
     \A k \in DOMAIN fs : fs[k] \in FileChoices(k)}

\* python simple_etl.py: construct SimpleETL and enter run_pipeline.
StartRun ==
  /\ pc \in {"idle", "exited"}
  /\ runs < MaxRuns
  /\ runs' = runs + 1
  /\ conn' = [conn EXCEPT !["etl"] = "open"]
  /\ files' \in SourceFiles
  /\ pc' = "extract"
  /\ raw_data' = NoData
  /\ transformed_data' = NoData
  /\ load_i' = 1
  /\ success' = "none"
  /\ h' = [FreshHistory(store, portfolio_summary, last_load) EXCEPT
             !.summarised = h.summarised
                + (IF h.writes_ok /\ ~h.summary_failed /\ ~h.load_raised
                   THEN 1 ELSE 0)]
  /\ UNCHANGED <<store, portfolio_summary, last_load, aux>>

ExtractData ==
  /\ pc = "extract"
  /\ LET r == extract_data(files)
     IN IF r.raised
        THEN /\ Fail("extract")
             /\ UNCHANGED raw_data
        ELSE /\ raw_data' = r.data
             /\ pc' = "t_customers"
             /\ UNCHANGED <<success, h>>
  /\ UNCHANGED <<conn, aux>>
  /\ UNCHANGED <<files, store, portfolio_summary, transformed_data, load_i,
                 runs, last_load>>

\* The guard of steps 1-3: the dataset was extracted and is not empty.
should_transform(data, key) == key \in DOMAIN data /\ ~IsEmpty(data[key])

\* One of the steps 1-3 of transform_data: the outcome r of transforming
\* data[key] is stored in transformed, or the step is skipped when the
\* dataset is empty.
TransformStep(at, key, r, next) ==
  /\ pc = at
  /\ IF should_transform(raw_data, key)
     THEN IF r.raised
          THEN /\ Fail("transform")
               /\ UNCHANGED transformed_data
          ELSE /\ transformed_data' = Put(transformed_data, key, r.df)
               /\ pc' = next
               /\ UNCHANGED <<success, h>>
     ELSE /\ pc' = next
          /\ UNCHANGED <<transformed_data, success, h>>
  /\ UNCHANGED <<conn, aux>>
  /\ UNCHANGED <<files, store, portfolio_summary, raw_data, load_i, runs,
                 last_load>>

TransformCustomers ==
  TransformStep("t_customers", "customers",
                segment_customers(raw_data["customers"]), "t_loans")

TransformLoans ==
  TransformStep("t_loans", "loans", classify_loans(raw_data["loans"]),
                "t_transactions")

TransformTransactions ==
  TransformStep("t_transactions", "transactions",
                normalize_transactions(raw_data["transactions"]), "t_risk")

\* The guard of step 4.
should_create_risk(transformed) ==
  "loans" \in DOMAIN transformed /\ "customers" \in DOMAIN transformed

\* Step 4 reading the extracted tables instead of the transformed ones.
risk_args_raw(data, transformed) ==
  [loans |-> data["loans"], customers |-> data["customers"]]

\* The arguments step 4 passes to create_risk_features.
risk_args(data, transformed) ==
  [loans |-> transformed["loans"], customers |-> transformed["customers"]]

\* Step 4 of transform_data and its return.
TransformRisk ==
  /\ pc = "t_risk"
  /\ IF should_create_risk(transformed_data)
     THEN \E rnd \in RandomDraws :
          LET args == risk_args(raw_data, transformed_data)
              r    == create_risk_features(args.loans, args.customers, rnd)
          IN IF r.raised
             THEN /\ pc' = "done"
                  /\ success' = "False"
                  /\ h' = [h EXCEPT !.failed_stage = "transform",
                                    !.failed_at = pc,
                                    !.crf_calls = Append(@, args)]
                  /\ UNCHANGED transformed_data
             ELSE /\ transformed_data' =
                       Put(transformed_data, "risk_features", r.df)
                  /\ pc' = "load"
                  /\ h' = [h EXCEPT !.crf_calls = Append(@, args)]
                  /\ UNCHANGED success
     ELSE /\ pc' = "load"
          /\ UNCHANGED <<transformed_data, success, h>>
  /\ UNCHANGED <<conn, aux>>
  /\ UNCHANGED <<files, store, portfolio_summary, raw_data, load_i, runs,
                 last_load>>

---------------------------------------------------------------------------
\* load_data

\* data.items(): the keys of the dict in insertion order.
items(data) == SelectSeq(TableOrder, LAMBDA t : t \in DOMAIN data)

\* to_sql with if_exists='append': rows are added to a table of the same
\* columns.
to_sql_append(old, df) ==
  IF old.exists /\ old.df.cols = df.cols
  THEN Stored(Tbl(df.cols, old.df.rows \o df.rows))
  ELSE Stored(df)

\* df.to_sql(name, conn, if_exists='replace', index=False) that succeeds:
\* the table is dropped, created from the frame and filled; pandas commits.
to_sql(old, df) == Stored(df)

\* Where a to_sql that raises can stop: before the DROP, between the DROP and
\* the CREATE, or in the INSERT (pandas rolls the rows back; the CREATE is
\* already committed).
ToSqlFailures == {"before_drop", "after_drop", "in_insert"}

to_sql_failed(old, df, at) ==
  CASE at = "before_drop" -> old
    [] at = "after_drop"  -> Absent
    [] at = "in_insert"   -> Stored(Tbl(df.cols, <<>>))

\* One iteration of the loop of load_data that does not raise.
LoadTable ==
  /\ pc = "load"
  /\ load_i <= Len(items(transformed_data))
  /\ LET name == items(transformed_data)[load_i]
         df   == transformed_data[name]
     IN IF ~IsEmpty(df)
        THEN /\ store' = [store EXCEPT ![name] = to_sql(store[name], df)]
             /\ h' = [h EXCEPT !.written = @ \cup {name}]
        ELSE UNCHANGED <<store, h>>
  /\ load_i' = load_i + 1
  /\ UNCHANGED <<conn, aux>>
  /\ UNCHANGED <<files, portfolio_summary, pc, raw_data, transformed_data,
                 success, runs, last_load>>

\* One iteration whose to_sql raises (disk full, database locked, a value
\* SQLite cannot bind): load_data logs, rolls back and re-raises.
LoadTableFails ==
  /\ pc = "load"
  /\ load_i <= Len(items(transformed_data))
  /\ LET name == items(transformed_data)[load_i]
         df   == transformed_data[name]
     IN /\ ~IsEmpty(df)
        /\ \E at \in ToSqlFailures :
             store' = [store EXCEPT ![name] = to_sql_failed(store[name], df, at)]
  /\ pc' = "done"
  /\ success' = "False"
  /\ h' = [h EXCEPT !.failed_stage = "load", !.failed_at = pc,
                    !.load_raised = TRUE]
  /\ last_load' = NoLoad
  /\ UNCHANGED <<conn, aux>>
  /\ UNCHANGED <<files, portfolio_summary, raw_data, transformed_data,
                 load_i, runs>>

RECURSIVE SumCol(_, _, _)
SumCol(rows, col, i) ==
  IF i > Len(rows) THEN 0 ELSE rows[i][col] + SumCol(rows, col, i + 1)

\* The SELECT of create_portfolio_summary against the loans table: one row
\* always; SUM and AVG over no rows are NULL.
portfolio_query(loans, now) ==
  LET rows == loans.df.rows
      n    == Len(rows)
      act  == SelectSeq(rows, LAMBDA r : r.current_status = "ACTIVE")
  IN [calculation_date  |-> now,
      total_loans       |-> n,
      total_disbursed   |-> IF n = 0 THEN NaN
                            ELSE SumCol(rows, "loan_amount", 1),
      active_loans      |-> IF n = 0 THEN NaN ELSE Len(act),
      avg_interest_rate |-> IF n = 0 THEN NaN
                            ELSE SumCol(rows, "interest_rate", 1) \div n]

\* A summary that replaces the table's rows by the new row.
create_portfolio_summary_replacing(st, summary, now) ==
  IF ~st["loans"].exists
     \/ ~({"loan_amount", "current_status", "interest_rate"}
            \subseteq st["loans"].df.cols)
  THEN [raised |-> FALSE, failed |-> TRUE, summary |-> summary]
  ELSE [raised |-> FALSE, failed |-> FALSE,
        summary |-> <<portfolio_query(st["loans"], now)>>]

\* A summary without its try/except: the error reaches load_data.
create_portfolio_summary_raising(st, summary, now) ==
  IF ~st["loans"].exists
     \/ ~({"loan_amount", "current_status", "interest_rate"}
            \subseteq st["loans"].df.cols)
  THEN [raised |-> TRUE, failed |-> TRUE, summary |-> summary]
  ELSE [raised |-> FALSE, failed |-> FALSE,
        summary |-> Append(summary, portfolio_query(st["loans"], now))]

\* create_portfolio_summary: the query raises when loans is missing or lacks
\* a column it names; the except clause logs the error and returns.
create_portfolio_summary(st, summary, now) ==
  IF ~st["loans"].exists
     \/ ~({"loan_amount", "current_status", "interest_rate"}
            \subseteq st["loans"].df.cols)
  THEN [raised |-> FALSE, failed |-> TRUE, summary |-> summary]
  ELSE [raised |-> FALSE, failed |-> FALSE,
        summary |-> Append(summary, portfolio_query(st["loans"], now))]

\* The end of load_data once the loop is done: the summary, then commit.
CreatePortfolioSummary ==
  /\ pc = "load"
  /\ load_i > Len(items(transformed_data))
  /\ LET r == create_portfolio_summary(store, portfolio_summary, runs)
     IN IF r.raised
        THEN /\ pc' = "done"
             /\ success' = "False"
             /\ h' = [h EXCEPT !.failed_stage = "load", !.failed_at = pc,
                               !.load_raised = TRUE, !.writes_ok = TRUE,
                               !.summary_failed = TRUE]
             /\ last_load' = NoLoad
             /\ UNCHANGED portfolio_summary
        ELSE /\ portfolio_summary' = r.summary
             /\ pc' = "report"
             /\ h' = [h EXCEPT !.writes_ok = TRUE,
                               !.summary_failed = r.failed]
             /\ last_load' = [valid |-> TRUE, data |-> transformed_data,
                              store |-> store]
             /\ UNCHANGED success
  /\ UNCHANGED <<conn, aux>>
  /\ UNCHANGED <<files, store, raw_data, transformed_data, load_i, runs>>

---------------------------------------------------------------------------
\* generate_report and the return of run_pipeline

GenerateReport ==
  /\ pc = "report"
  /\ pc' = "done"
  /\ success' = "True"
  /\ UNCHANGED <<conn, aux>>
  /\ UNCHANGED <<files, store, portfolio_summary, raw_data, transformed_data,
                 load_i, runs, last_load, h>>

\* generate_report raises and the run's writes are undone before run_pipeline
\* returns False.
GenerateReportRollsBack ==
  /\ pc = "report"
  /\ Fail("report")
  /\ store' = h.pre_store
  /\ portfolio_summary' = h.pre_summary
  /\ UNCHANGED <<conn, aux>>
  /\ UNCHANGED <<files, raw_data, transformed_data, load_i, runs, last_load>>

\* open('etl_report.json', 'w') or json.dump raises.
GenerateReportFails ==
  /\ pc = "report"
  /\ Fail("report")
  /\ UNCHANGED <<conn, aux>>
  /\ UNCHANGED <<files, store, portfolio_summary, raw_data, transformed_data,
                 load_i, runs, last_load>>

\* The end of __main__: run_pipeline has returned, the connection is closed.
CloseConnection ==
  /\ pc = "done"
  /\ IF conn["etl"] = "open"
     THEN conn' = [conn EXCEPT !["etl"] = "closed"]
     ELSE UNCHANGED conn
  /\ pc' = "exited"
  /\ UNCHANGED <<files, store, portfolio_summary, raw_data, transformed_data,
                 load_i, success, runs, last_load, h, aux>>

Next ==
  \/ StartRun
  \/ ExtractData
  \/ TransformCustomers
  \/ TransformLoans
  \/ TransformTransactions
  \/ TransformRisk
  \/ LoadTable
  \/ LoadTableFails
  \/ CreatePortfolioSummary
  \/ GenerateReport
  \/ GenerateReportFails
  \/ CloseConnection

Spec == Init /\ [][Next]_vars

---------------------------------------------------------------------------
\* Properties

Tables == {"customers", "loans", "transactions", "risk_features"}

\* load_data of the current run has finished its loop and its summary step.
Loaded == pc \in {"report", "done"} /\ h.writes_ok /\ ~h.load_raised

\* transform_data of the current run has returned.
Transformed ==
  \/ pc \in {"load", "report"}
  \/ pc = "done" /\ h.failed_stage \in {"none", "load", "report"}

\* The rows this run derived for table t (none when t was not produced).
DerivedRows(t) ==
  IF t \in DOMAIN transformed_data THEN transformed_data[t].rows ELSE <<>>

IsPrefix(s, t) == Len(s) <= Len(t) /\ SubSeq(t, 1, Len(s)) = s

\* C1: load_data is atomic: when a table write fails part-way through the
\* loop, the store holds its pre-run contents for every table and the error
\* reaches the caller.
C1_AtomicLoad ==
  (pc = "done" /\ h.load_raised) =>
     /\ \A t \in h.written : store[t] = h.pre_store[t]
     /\ success = "False"

\* C2 as stated: every run whose table writes succeed appends exactly one
\* row to portfolio_summary.
C2_OneRowPerLoadedRun ==
  (pc \in {"report", "done"} /\ h.writes_ok) =>
     Len(portfolio_summary) = Len(h.pre_summary) + 1

\* C2 amended: a run whose table writes succeed and whose summary computation
\* does not fail appends exactly one row; no run removes or rewrites an
\* earlier row; the table has one row per such run.
C2_OneRowPerSummarisedRun ==
  LET appended == IF h.writes_ok /\ ~h.summary_failed THEN 1 ELSE 0
  IN /\ IsPrefix(h.pre_summary, portfolio_summary)
     /\ Len(portfolio_summary) = Len(h.pre_summary) + appended
     /\ Len(portfolio_summary) = h.summarised + appended

C2_Witness ==
  /\ pc = "done"
  /\ runs = 2
  /\ success = "True"
  /\ ~h.summary_failed
  /\ h.prev_load.valid
  /\ h.prev_load.data = transformed_data
  /\ Len(portfolio_summary) = 2

\* C3: after a run that loads successfully every transformed table of the
\* store holds exactly the rows derived from that run's inputs, also when a
\* source readable in an earlier run is missing or empty now.
C3_TablesSuperseded ==
  Loaded =>
    \A t \in Tables :
       /\ store[t].exists
       /\ store[t].df.rows = DerivedRows(t)

C5_SummaryFromThisRun ==
  (Loaded /\ ~h.summary_failed) =>
     LET row    == portfolio_summary[Len(portfolio_summary)]
         loans  == DerivedRows("loans")
         active == SelectSeq(loans, LAMBDA r : r.current_status = "ACTIVE")
         count(v) == IF v = NaN THEN 0 ELSE v
     IN /\ count(row.total_loans) = Len(loans)
        /\ count(row.active_loans) = Len(active)

\* C6: a failure of the portfolio summary does not undo the table writes of
\* the run: every table the run replaced is in the store as written,
\* load_data raises nothing, and run_pipeline returns True unless the report
\* stage that follows fails.
C6_SummaryBestEffort ==
  h.summary_failed =>
     /\ ~h.load_raised
     /\ pc \in {"report", "done", "exited"}
     /\ h.written = {t \in DOMAIN transformed_data :
                       ~IsEmpty(transformed_data[t])}
     /\ \A t \in h.written : store[t] = Stored(transformed_data[t])
     /\ pc \in {"done", "exited"} =>
          (success = "True" \/ h.failed_at = "report")

C6_Witness ==
  /\ pc = "done"
  /\ h.summary_failed
  /\ success = "True"
  /\ "loans" \in h.written
  /\ store["loans"] # h.pre_store["loans"]

\* C7: for every dataset of data_sources, a file that cannot be read gives
\* an empty table under its name, the other datasets are returned as read,
\* and extract_data never aborts the run.
C7_ExtractDegrades ==
  pc \notin {"idle", "extract"} =>
     /\ DOMAIN raw_data = {"customers", "loans", "transactions"}
     /\ \A k \in DOMAIN raw_data :
          raw_data[k] = IF files[k].readable THEN files[k].df ELSE EmptyFrame
     /\ h.failed_stage # "extract"

C7_Witness ==
  /\ pc = "t_customers"
  /\ ~files["loans"].readable
  /\ files["customers"].readable
  /\ files["transactions"].readable
  /\ raw_data["loans"] = EmptyFrame
  /\ ~IsEmpty(raw_data["customers"])
  /\ ~IsEmpty(raw_data["transactions"])

\* C8: create_risk_features runs only after the customers and the loans
\* transform have completed and is given their transformed outputs; when the
\* loans or the customers table is empty it is never invoked, no
\* risk_features table is produced, and the non-empty tables are still
\* transformed.
C8_RiskAfterTransforms ==
  /\ \A i \in 1..Len(h.crf_calls) :
       /\ pc \notin {"extract", "t_customers", "t_loans", "t_transactions",
                     "t_risk"}
       /\ "loans" \in DOMAIN transformed_data
       /\ "customers" \in DOMAIN transformed_data
       /\ h.crf_calls[i].loans = transformed_data["loans"]
       /\ h.crf_calls[i].customers = transformed_data["customers"]
       /\ "risk_band" \in h.crf_calls[i].loans.cols
       /\ "customer_segment" \in h.crf_calls[i].customers.cols
  /\ (Transformed /\ (IsEmpty(raw_data["loans"])
                      \/ IsEmpty(raw_data["customers"]))) =>
       /\ h.crf_calls = <<>>
       /\ "risk_features" \notin DOMAIN transformed_data
       /\ \A k \in DOMAIN raw_data :
            ~IsEmpty(raw_data[k]) => k \in DOMAIN transformed_data

C8_Witness ==
  /\ Transformed
  /\ IsEmpty(raw_data["loans"])
  /\ ~IsEmpty(raw_data["customers"])
  /\ "customer_segment" \in transformed_data["customers"].cols
  /\ transformed_data["customers"].rows[1].customer_segment = "Premium"
  /\ "risk_features" \notin DOMAIN transformed_data

RequiredLoanCols ==
  {"interest_rate", "emi_amount", "tenure_months", "loan_amount"}

\* The loans step of transform_data has been passed (or the run has ended)
\* with a non-empty loans table that lacks a required column.
LoansLackColumn ==
  /\ pc \in {"t_transactions", "t_risk", "load", "report", "done"}
  /\ "loans" \in DOMAIN raw_data
  /\ ~IsEmpty(raw_data["loans"])
  /\ ~(RequiredLoanCols \subseteq raw_data["loans"].cols)

\* C9: a non-empty loans table lacking interest_rate, emi_amount,
\* tenure_months or loan_amount aborts the run in the transform stage:
\* run_pipeline returns False, load_data is never reached and the store is
\* as it was before the run.
C9_MissingLoanColumnAborts ==
  LoansLackColumn =>
     /\ pc = "done"
     /\ success = "False"
     /\ h.failed_stage = "transform"
     /\ h.written = {}
     /\ ~h.writes_ok
     /\ store = h.pre_store
     /\ portfolio_summary = h.pre_summary

C9_Witness ==
  /\ LoansLackColumn
  /\ h.failed_at = "t_loans"
  /\ runs = 2
  /\ h.prev_load.valid
  /\ store = h.prev_load.store

\* Rows of the raw transactions table whose transaction_date is neither
\* missing nor parsable.
Unparsable(df) ==
  {i \in 1..Len(df.rows) :
     /\ df.rows[i].transaction_date # None
     /\ ~Parsable(df.rows[i].transaction_date)}

\* C10: a transaction row whose transaction_date cannot be parsed is kept in
\* the transformed transactions table with null transaction_date and
\* transaction_month, the other rows are transformed and the run goes on to
\* load.
C10_UnparsableDateRetained ==
  LET raw == raw_data["transactions"]
  IN (/\ pc \in {"t_risk", "load", "report", "done"}
      /\ h.failed_at \notin {"t_customers", "t_loans"}
      /\ "transaction_date" \in raw.cols
      /\ Unparsable(raw) # {}) =>
        /\ h.failed_at # "t_transactions"
        /\ "transactions" \in DOMAIN transformed_data
        /\ Len(transformed_data["transactions"].rows) = Len(raw.rows)
        /\ \A i \in Unparsable(raw) :
             /\ transformed_data["transactions"].rows[i].transaction_date = NaT
             /\ transformed_data["transactions"].rows[i].transaction_month
                  = None

\* C11: every row of the risk_features table produced by
\* create_risk_features has a risk_score in [0,100], also for a loan whose
\* customer_id matches no customer row and for a missing credit_score.
C11_RiskScoreInRange ==
  "risk_features" \in DOMAIN transformed_data =>
     \A i \in Rows(transformed_data["risk_features"]) :
        /\ transformed_data["risk_features"].rows[i].risk_score >= 0
        /\ transformed_data["risk_features"].rows[i].risk_score <= 10000

---------------------------------------------------------------------------
\* The derivations of transform_data applied to tables of their own

\* credit_score range of the data model.
MinCredit == 300
MaxCredit == 900

\* Largest interest_rate applied, in hundredths.
MaxRate == 2000

CreditScores == MinCredit..MaxCredit

\* Step 1 on a customers table of two rows with neighbouring scores.
CalcSegment ==
  /\ calc.op = "none"
  /\ \E s \in CreditScores :
       LET t  == IF s < MaxCredit THEN s + 1 ELSE s
           df == Tbl(CustCols, <<Cust(1, s), Cust(2, t)>>)
       IN calc' = [op |-> "segment", arg |-> df,
                   out |-> segment_customers(df)]
  /\ UNCHANGED <<etl_vars, conn, tool, setup>>

\* Step 2 on a loans table of one row.
CalcBand ==
  /\ calc.op = "none"
  /\ \E r \in 1..MaxRate :
       LET df == Tbl(LoanCols,
                     <<Loan(1, 1, 100000, r, 24, 5000, "ACTIVE")>>)
       IN calc' = [op |-> "band", arg |-> df, out |-> classify_loans(df)]
  /\ UNCHANGED <<etl_vars, conn, tool, setup>>

\* The customers tables step 4 is applied to: one customer with score c,
\* or the same customer_id twice.
CalcCustomers(c, shape) ==
  CASE shape = "single"    -> Tbl(CustCols, <<Cust(1, c)>>)
    [] shape = "duplicate" -> Tbl(CustCols, <<Cust(1, c), Cust(1, 649)>>)

\* Step 4 on the transformed LoansA (loan 1 of customer 1, loan 2 of a
\* customer that is not in the table) and a transformed customers table.
CalcRisk ==
  /\ calc.op = "none"
  /\ \E c \in CreditScores \cup {NaN} :
     \E shape \in {"single", "duplicate"} :
     \E rnd \in RandomDraws :
       LET loans     == classify_loans(LoansA).df
           customers == segment_customers(CalcCustomers(c, shape)).df
       IN calc' = [op |-> "risk",
                   arg |-> [loans |-> loans, customers |-> customers],
                   out |-> create_risk_features(loans, customers, rnd)]
  /\ UNCHANGED <<etl_vars, conn, tool, setup>>

CalcNext ==
  \/ CalcSegment
  \/ CalcBand
  \/ CalcRisk

CalcSpec == Init /\ [][CalcNext]_vars

\* The label of the interval (bins[k], bins[k+1]] that holds v, None when no
\* interval does.
IntervalLabel(v, bins, labels) ==
  IF \E k \in 1..Len(labels) : bins[k] < v /\ v <= bins[k + 1]
  THEN labels[CHOOSE k \in 1..Len(labels) : bins[k] < v /\ v <= bins[k + 1]]
  ELSE None

\* The column col of df as a sequence.
Column(df, col) == [i \in 1..Len(df.rows) |-> df.rows[i][col]]

\* No customer_id occurs twice in df.
UniqueCustomerIds(df) ==
  \A i, j \in Rows(df) :
     df.rows[i].customer_id = df.rows[j].customer_id => i = j

\* C12 as stated: create_risk_features returns exactly one row per loan_id,
\* also when customers holds several rows with the same customer_id.
C12_OneRowPerLoan ==
  calc.op = "risk" =>
     /\ ~calc.out.raised
     /\ Column(calc.out.df, "loan_id") = Column(calc.arg.loans, "loan_id")

\* C12 amended: for loans with unique loan_id and customers with unique
\* customer_id, create_risk_features returns exactly one row per loan_id, a
\* loan matching no customer included; in general a loan yields one row per
\* customers row with its customer_id.
C12_OneRowPerLoanUniqueCustomers ==
  calc.op = "risk" =>
     /\ ~calc.out.raised
     /\ UniqueCustomerIds(calc.arg.customers) =>
          Column(calc.out.df, "loan_id") = Column(calc.arg.loans, "loan_id")
     /\ \A i \in Rows(calc.arg.loans) :
          LET l       == calc.arg.loans.rows[i]
              matches == {j \in Rows(calc.arg.customers) :
                            calc.arg.customers.rows[j].customer_id
                              = l.customer_id}
              rows    == {k \in Rows(calc.out.df) :
                            calc.out.df.rows[k].loan_id = l.loan_id}
          IN Cardinality(rows) =
               IF matches = {} THEN 1 ELSE Cardinality(matches)

C12_Witness ==
  /\ calc.op = "risk"
  /\ UniqueCustomerIds(calc.arg.customers)
  /\ Column(calc.arg.loans, "customer_id") = <<1, 9>>
  /\ Column(calc.out.df, "loan_id") = <<1, 2>>

SegmentRank(seg) ==
  CASE seg = "Standard" -> 0
    [] seg = "Silver"   -> 1
    [] seg = "Gold"     -> 2
    [] seg = "Premium"  -> 3

\* C14: every customer row gets exactly one of Premium, Gold, Silver,
\* Standard; score >= 750 gives Premium, 700..749 Gold, 650..699 Silver,
\* below 650 Standard; a higher score never gets a lower segment.
C14_SegmentBoundaries ==
  calc.op = "segment" =>
     /\ ~calc.out.raised
     /\ Len(calc.out.df.rows) = Len(calc.arg.rows)
     /\ \A i \in Rows(calc.out.df) :
          LET s   == calc.arg.rows[i].credit_score
              seg == calc.out.df.rows[i].customer_segment
          IN /\ seg \in {"Premium", "Gold", "Silver", "Standard"}
             /\ (seg = "Premium")  <=> (s >= 750)
             /\ (seg = "Gold")     <=> (s >= 700 /\ s <= 749)
             /\ (seg = "Silver")   <=> (s >= 650 /\ s <= 699)
             /\ (seg = "Standard") <=> (s < 650)
     /\ SegmentRank(calc.out.df.rows[1].customer_segment)
          <= SegmentRank(calc.out.df.rows[2].customer_segment)

C14_Witness ==
  /\ calc.op = "segment"
  /\ Column(calc.arg, "credit_score") = <<749, 750>>
  /\ Column(calc.out.df, "customer_segment") = <<"Gold", "Premium">>

\* C15: risk_band of a loan row is the label of the interval that holds its
\* interest_rate among (0,10] A, (10,12] B, (12,14] C, (14,16] D, (16,100] E,
\* every upper bound belonging to the lower band.
C15_RiskBandIntervals ==
  calc.op = "band" =>
     /\ ~calc.out.raised
     /\ calc.out.df.rows[1].risk_band =
          IntervalLabel(calc.arg.rows[1].interest_rate,
                        <<0, 1000, 1200, 1400, 1600, 10000>>,
                        <<"A", "B", "C", "D", "E">>)
     /\ calc.out.df.rows[1].risk_band # None

C15_Witness ==
  /\ calc.op = "band"
  /\ calc.arg.rows[1].interest_rate = 1601
  /\ calc.out.df.rows[1].risk_band = "E"
  /\ calc.out.df.rows[1].total_payable = 120000
  /\ calc.out.df.rows[1].total_interest = 20000

\* C16: a risk_features row computed from a credit_score in 300..900 has
\* risk_score = credit_score * 0.1 + 20 clamped to [0,100] and risk_grade the
\* label of the interval that holds risk_score among (0,60] E, (60,70] D,
\* (70,80] C, (80,90] B, (90,100] A, never null.
C16_RiskScoreAndGrade ==
  (/\ calc.op = "risk"
   /\ Len(calc.arg.customers.rows) = 1
   /\ calc.arg.customers.rows[1].credit_score \in CreditScores) =>
      LET c        == calc.arg.customers.rows[1].credit_score
          linear   == c * 10 + 2000
          expected == IF linear > 10000 THEN 10000
                      ELSE IF linear < 0 THEN 0 ELSE linear
          row      == calc.out.df.rows[1]
      IN /\ ~calc.out.raised
         /\ row.loan_id = 1
         /\ row.risk_score = expected
         /\ row.risk_grade =
              IntervalLabel(expected, <<0, 6000, 7000, 8000, 9000, 10000>>,
                            <<"E", "D", "C", "B", "A">>)
         /\ row.risk_grade # None

C16_Witness ==
  /\ calc.op = "risk"
  /\ Len(calc.arg.customers.rows) = 1
  /\ calc.arg.customers.rows[1].credit_score = 700
  /\ calc.out.df.rows[1].risk_score = 9000
  /\ calc.out.df.rows[1].risk_grade = "B"

---------------------------------------------------------------------------
\* run_pipeline returning False

\* run_pipeline of the current run has returned False.
ReturnedFalse == pc = "done" /\ success = "False"

---------------------------------------------------------------------------
\* check_database_health (pipeline_monitoring.py) and execute_query
\* (sqlite_queries.py), each run once against a database file

AllTables == <<"customers", "loans", "transactions", "risk_features",
               "portfolio_summary">>

\* A database file as the tools see it: the tables of sqlite_master and
\* whether transactions has a transaction_date column.
Db(tables, dated) == [tables |-> tables, dated |-> dated]

\* The file after setup, after a to_sql that failed behind its DROP, after a
\* load of a transactions.csv without transaction_date, and a file no setup
\* has initialised.
DbShapes ==
  {Db(AllTables, TRUE),
   Db(<<"customers", "loans", "risk_features", "portfolio_summary">>, TRUE),
   Db(<<"customers", "loans", "transactions", "portfolio_summary">>, TRUE),
   Db(AllTables, FALSE),
   Db(<<>>, FALSE)}

\* The tables each query of run_all_analytics reads.
Queries ==
  {{"loans", "transactions"}, {"loans"}, {"customers"}, {"transactions"},
   {"risk_features", "loans"}, {"customers", "loans"},
   {"customers", "loans", "transactions", "risk_features"}}

Range(seq) == {seq[i] : i \in 1..Len(seq)}

\* A tool is called: a program, the file it is pointed at, and for
\* execute_query the tables its query reads.
StartTool ==
  /\ tool.prog = "none"
  /\ \E p \in {"health", "query"} : \E db \in DbShapes :
     \E needs \in (IF p = "query" THEN Queries ELSE {{}}) :
       tool' = [prog |-> p, pc |-> "connect", db |-> db, i |-> 1,
                needs |-> needs]
  /\ UNCHANGED <<etl_vars, conn, calc, setup>>

\* sqlite3.connect(db_path) inside the try.
ToolConnect ==
  /\ tool.pc = "connect"
  /\ conn' = [conn EXCEPT ![tool.prog] = "open"]
  /\ tool' = [tool EXCEPT !.pc = IF tool.prog = "health" THEN "list"
                                 ELSE "read"]
  /\ UNCHANGED <<etl_vars, calc, setup>>

\* sqlite3.connect raises (the directory does not exist): the except clause
\* prints and the function returns; no connection was made.
ToolConnectFails ==
  /\ tool.pc = "connect"
  /\ tool' = [tool EXCEPT !.pc = "returned"]
  /\ UNCHANGED <<etl_vars, conn, calc, setup>>

\* check_database_health: SELECT name FROM sqlite_master.
HealthListTables ==
  /\ tool.prog = "health"
  /\ tool.pc = "list"
  /\ tool' = [tool EXCEPT !.pc = "count", !.i = 1]
  /\ UNCHANGED <<etl_vars, conn, calc, setup>>

\* check_database_health: SELECT COUNT(*) for the next table.
HealthCount ==
  /\ tool.prog = "health"
  /\ tool.pc = "count"
  /\ tool.i <= Len(tool.db.tables)
  /\ tool' = [tool EXCEPT !.i = @ + 1]
  /\ UNCHANGED <<etl_vars, conn, calc, setup>>

\* check_database_health: SELECT MAX(transaction_date) FROM transactions
\* raises when the table or the column is missing; the except clause prints
\* and the function returns.
HealthFreshness ==
  /\ tool.prog = "health"
  /\ tool.pc = "count"
  /\ tool.i > Len(tool.db.tables)
  /\ tool' = [tool EXCEPT !.pc =
                IF "transactions" \in Range(tool.db.tables) /\ tool.db.dated
                THEN "close" ELSE "returned"]
  /\ UNCHANGED <<etl_vars, conn, calc, setup>>

\* A query of check_database_health raises for a reason outside the file's
\* schema (database is locked, file is not a database).
HealthQueryFails ==
  /\ tool.prog = "health"
  /\ tool.pc \in {"list", "count"}
  /\ tool' = [tool EXCEPT !.pc = "returned"]
  /\ UNCHANGED <<etl_vars, conn, calc, setup>>

\* execute_query: pd.read_sql_query raises when a table the query reads is
\* missing or the database is locked; the except clause prints and returns
\* an empty frame.
QueryRead ==
  /\ tool.prog = "query"
  /\ tool.pc = "read"
  /\ \E locked \in BOOLEAN :
       tool' = [tool EXCEPT !.pc =
                  IF tool.needs \subseteq Range(tool.db.tables) /\ ~locked
                  THEN "close" ELSE "returned"]
  /\ UNCHANGED <<etl_vars, conn, calc, setup>>

\* conn.close() on the path where nothing raised, then the return.
ToolClose ==
  /\ tool.pc = "close"
  /\ conn' = [conn EXCEPT ![tool.prog] = "closed"]
  /\ tool' = [tool EXCEPT !.pc = "returned"]
  /\ UNCHANGED <<etl_vars, calc, setup>>

ToolsNext ==
  \/ StartTool
  \/ ToolConnect
  \/ ToolConnectFails
  \/ HealthListTables
  \/ HealthCount
  \/ HealthFreshness
  \/ HealthQueryFails
  \/ QueryRead
  \/ ToolClose

ToolsSpec == Init /\ [][ToolsNext]_vars

\* Program p has reached the end of the code that opened its connection.
Exited(p) ==
  IF p = "etl" THEN pc = "exited"
  ELSE tool.prog = p /\ tool.pc = "returned"

\* C13: every connection to the store is closed on every exit path: the ETL
\* run's after a failed stage, the health check's when a query fails and
\* execute_query's when the query fails.
C13_ConnectionsClosed ==
  \A p \in Programs : Exited(p) => conn[p] = "closed"

---------------------------------------------------------------------------
\* simple_setup.py

\* data_sources as somebody left it before setup: each of the three files is
\* there with some content, or is not there.
SetupDirs ==
  {d \in [{"customers", "loans", "transactions"} ->
            {NoFile} \cup {OnDisk(f) : f \in CustomersFiles \cup LoansFiles
                                              \cup TransactionsFiles}] :
     \A k \in DOMAIN d : d[k] = NoFile \/ d[k].content \in FileChoices(k)}

\* python simple_setup.py on a machine whose database file is new or is the
\* one an earlier setup made: the folders are made (exist_ok=True keeps what
\* is in them).
StartSetup ==
  /\ setup.pc = "none"
  /\ \E d \in SetupDirs :
       setup' = [SetupIdle EXCEPT !.pc = "database", !.pre = d, !.dir = d]
  /\ store' \in {store, [t \in DOMAIN store |-> Absent]}
  /\ UNCHANGED <<files, portfolio_summary, pc, raw_data, transformed_data,
                 load_i, success, runs, last_load, h, conn, calc, tool>>

\* CREATE TABLE IF NOT EXISTS for each statement of tables_sql, then commit
\* and close.
SetupDatabase ==
  /\ setup.pc = "database"
  /\ store' = [t \in DOMAIN store |->
                 IF store[t].exists THEN store[t] ELSE tables_sql[t]]
  /\ setup' = [setup EXCEPT !.pc = "check"]
  /\ UNCHANGED <<files, portfolio_summary, pc, raw_data, transformed_data,
                 load_i, success, runs, last_load, h, conn, calc, tool>>

\* have_own_data = all(os.path.exists(...) for file in csv_files).
SetupCheck ==
  /\ setup.pc = "check"
  /\ LET have == \A k \in DOMAIN setup.dir : setup.dir[k].exists
     IN setup' = [setup EXCEPT !.have_own_data = have,
                               !.pc = IF have THEN "config" ELSE "to_csv",
                               !.i = 1]
  /\ UNCHANGED <<etl_vars, conn, calc, tool>>

\* The branch `if not have_own_data`: the three to_csv calls, one per step,
\* each creating or truncating its file.
SetupToCsv ==
  /\ setup.pc = "to_csv"
  /\ LET k == data_sources[setup.i]
     IN setup' = [setup EXCEPT !.dir[k] = OnDisk(sample_data[k]),
                               !.i = @ + 1,
                               !.pc = IF setup.i = Len(data_sources)
                                      THEN "config" ELSE "to_csv"]
  /\ UNCHANGED <<etl_vars, conn, calc, tool>>

\* config.json is written and the script ends.
SetupConfig ==
  /\ setup.pc = "config"
  /\ setup' = [setup EXCEPT !.pc = "done"]
  /\ UNCHANGED <<etl_vars, conn, calc, tool>>

SetupNext ==
  \/ StartSetup
  \/ SetupDatabase
  \/ SetupCheck
  \/ SetupToCsv
  \/ SetupConfig

SetupSpec == Init /\ [][SetupNext]_vars

\* C18: the setup script never overwrites a source CSV file that already
\* exists: every file present in data_sources before setup has the same
\* content after setup, and sample data is written only for absent files.
C18_ExistingCsvKept ==
  setup.pc = "done" =>
     \A k \in DOMAIN setup.pre :
        setup.pre[k].exists => setup.dir[k] = setup.pre[k]

====
